---------------------------- MODULE Spec2Model ----------------------------
(***************************************************************************)
(* Two L4 entities (l4sap_create .. l4sap_destroy of src/maze.c) on top of *)
(* their L2 entities, joined by two FIFO datagram channels.  One action is *)
(* one run of the code between two blocking points: the entry of an        *)
(* operation up to its first wait in l2sap_recvfrom_timeout, or the return *)
(* of that wait up to the next wait or the return of the operation.        *)
(***************************************************************************)
EXTENDS Integers, Sequences, FiniteSets, TLC

(* ------------------------------ bounds -------------------------------- *)
\* Largest UDP payload the L2 layer accepts (scaled down).
L2Framesize == 12
\* Calls of l4sap_send and l4sap_recv the applications make, over both entities.
MaxOps == 5
\* Datagrams a channel (network plus socket buffer) holds; more are lost.
MaxChan == 2
\* Foreign datagrams the environment puts on the channels.
MaxInject == 2
\* Calls made with arguments that fail the parameter validation.
MaxRejected == 1

(* --------------------------- program constants ------------------------- *)
L2Headersize == 6
L4Headersize == 4
L2Payloadsize == L2Framesize - L2Headersize
L4Framesize == L2Payloadsize
L4Payloadsize == L4Framesize - L4Headersize
\* Mutant: one more turn of the loop of l4sap_send.
max_retries_plus_one == 5 + 1
\* Mutant: l4sap_send never retransmits.
max_retries_one == 0 + 1

max_retries == 5

Peers == {"A", "B"}
Other(p) == IF p = "A" THEN "B" ELSE "A"

Min(a, b) == IF a < b THEN a ELSE b

\* The first n elements of s.
Take(s, n) == SubSeq(s, 1, Min(n, Len(s)))

VARIABLES
    l2,                 \* l2[p]: the entity still owns its L2 entity (socket open)
    send_seqno,         \* L4SAP.send_seqno
    expected_seqno,     \* L4SAP.expected_seqno
    pending_data,       \* L4SAP.pending_data (0 or 1)
    pending_header,     \* L4SAP.pending_header
    pending_pl_buffer,  \* L4SAP.pending_pl_buffer[0 .. pending_pl_len-1]
    pc,                 \* where the caller of entity p is: "idle", "send", "recv", "destroyed"
    attempt,            \* l4sap_send: the loop counter
    packet,             \* l4sap_send: the DATA frame built at entry;
                        \* l4sap_recv: its receive buffer of the same name
    rlen,               \* l4sap_recv: the caller's len
    chan,               \* chan[p]: datagrams on their way to p's socket, oldest first
    ret,                \* the result of p's last finished operation
    emit,               \* the frames the last step handed to l2sap_sendto (see Emitted)
    txcount,            \* DATA frames the current (last) l4sap_send handed to L2
    sendlog,            \* per entity, one record per l4sap_send call: payload, result
    delivered,          \* per entity, the payloads returned by its l4sap_recv calls
    nrecv,              \* l4sap_recv calls made on the entity
    ninject,            \* foreign datagrams put on the channels so far
    l2pc,               \* the L2 byte model: "idle", "sent", "received"
    l2data,             \* the payload given to l2sap_sendto
    l2sent,             \* what l2sap_sendto returned
    wire,               \* the bytes of the UDP datagram l2sap_sendto sent
    flipped,            \* a bit of the datagram was flipped on the wire
    l2ret,              \* what l2sap_recvfrom_timeout returned
    l2buf,              \* the bytes l2sap_recvfrom_timeout copied to its caller
    rejected,           \* the arguments of the last call that failed the parameter validation
    nrejected,          \* calls that failed the parameter validation
    maze,               \* struct Maze, as mazeSolve finds and leaves it
    given,              \* the struct Maze the caller passed to mazeSolve
    mazepc,             \* mazeSolve: "none", "called", "returned"
    calls               \* the invocations of dfs the call of mazeSolve made

l2vars == <<l2pc, l2data, l2sent, wire, flipped, l2ret, l2buf>>

argvars == <<rejected, nrejected>>

mazevars == <<maze, given, mazepc, calls>>

vars == <<l2, send_seqno, expected_seqno, pending_data, pending_header,
          pending_pl_buffer, pc, attempt, packet, rlen, chan, ret, emit,
          txcount, sendlog, delivered, nrecv, ninject, l2vars, argvars, mazevars>>

l4state == <<send_seqno, expected_seqno, pending_data, pending_header, pending_pl_buffer>>

(* ------------------------------ frames --------------------------------- *)
\* struct L4Header followed by the payload bytes.
L4Frame(t, s, a, m, pl) == [type |-> t, seqno |-> s, ackno |-> a, mbz |-> m, pl |-> pl]

NoFrame == L4Frame("NONE", 0, 0, 0, <<>>)

\* Mutant: the ACK echoes the sequence number of the DATA frame.
AckNoEcho(seqno) == seqno % 256

\* uint8_t ackno = 1 - seqno
AckNo(seqno) == (1 - seqno) % 256

\* The ACK both operations build for a DATA frame with sequence number seqno.
AckFor(seqno) == L4Frame("ACK", 0, AckNo(seqno), 0, <<>>)

\* The tap on the wire of an entity whose peer is not an entity of the model
\* (it is the environment, or it has been destroyed): what the last step of
\* the entity handed to l2sap_sendto.  Towards a modelled peer the frames are
\* seen on the channel instead.
Emitted(p, out) == IF l2[IF p = "A" THEN "B" ELSE "A"] THEN <<>> ELSE out

\* Result of an operation: how it ended and, when it ended well, the byte count.
Ret(op, code, n) == [op |-> op, code |-> code, n |-> n]

NoRet == Ret("none", "none", 0)

\* The arguments of a call: the operation, whether the handle and the buffer
\* are null pointers, and len.
Call(op, l4, data, len) == [op |-> op, l4 |-> l4, data |-> data, len |-> len]

NoCall == Call("none", "null", "null", 0)

(* ------------------------------- L2 ------------------------------------ *)
\* l2sap_sendto's parameter validation (the socket itself accepts the datagram).
L2SendOk(len) == len >= 0 /\ len <= L2Payloadsize /\ len + L2Headersize <= L2Framesize

\* Length in bytes of an L4 frame as an L2 payload.
FrameLen(f) == L4Headersize + Len(f.pl)

\* A datagram whose frame had a bit flipped in flight keeps what it was in
\* its type.
BadOf(t) == CASE t = "DATA" -> "BAD_DATA" [] t = "ACK" -> "BAD_ACK" [] OTHER -> "BAD"

Flipped(f) == [f EXCEPT !.type = BadOf(f.type)]

IsBad(f) == f.type \in {"BAD_DATA", "BAD_ACK", "BAD"}

\* A datagram with an L2 payload of one byte, which is none of the L4 types.
ShortFrame == L4Frame("SHORT", 0, 0, 0, <<>>)

\* What l2sap_recvfrom_timeout returns for datagram d: -1 when the checksum
\* does not match, else the length of the L2 payload.
L2RecvLen(d) ==
    IF IsBad(d) THEN -1
    ELSE IF d.type = "SHORT" THEN 1
    ELSE FrameLen(d)

\* The caller's buffer `was` after l2sap_recvfrom_timeout handled datagram d:
\* untouched on -1, else the payload is copied over its first bytes.
L2RecvBuf(was, d) ==
    IF IsBad(d) THEN was
    ELSE IF d.type = "SHORT" THEN [was EXCEPT !.type = "NONE"]
    ELSE d

\* recv_len < sizeof(struct L4Header): the int is converted to size_t, so a
\* negative recv_len compares as a huge value.
UnsignedLess(recv_len, size) == recv_len >= 0 /\ recv_len < size

\* Which of the frames handed to L2 reach the peer's channel: any subset on a
\* lossy channel (and only as many as the channel holds), all of them otherwise.
Keeps(q, out, lossy) ==
    IF lossy
    THEN {K \in SUBSET (1 .. Len(out)) : Len(chan[q]) + Cardinality(K) <= MaxChan}
    ELSE {1 .. Len(out)}

RECURSIVE Pick(_, _, _)
Pick(out, K, i) ==
    IF i > Len(out) THEN <<>>
    ELSE (IF i \in K THEN <<out[i]>> ELSE <<>>) \o Pick(out, K, i + 1)

\* chan after entity p took `taken` datagrams off its own channel and handed
\* `out` to l2sap_sendto, of which those with index in K arrive.
Channels(p, taken, out, K) ==
    LET q == Other(p) IN
    [chan EXCEPT ![p] = SubSeq(chan[p], taken + 1, Len(chan[p])),
                 ![q] = IF l2[q] THEN chan[q] \o Pick(out, K, 1) ELSE chan[q]]

(* ---------------------------- l4sap_create ----------------------------- *)
\* The fields l4sap_create sets, and the callers outside every operation;
\* `present` are the entities that exist.
Created(present) ==
    /\ l2 = [p \in Peers |-> p \in present]
    /\ send_seqno = [p \in Peers |-> 0]
    /\ expected_seqno = [p \in Peers |-> 0]
    /\ pending_data = [p \in Peers |-> 0]
    /\ pending_header = [p \in Peers |-> NoFrame]
    /\ pending_pl_buffer = [p \in Peers |-> <<>>]
    /\ pc = [p \in Peers |-> IF p \in present THEN "idle" ELSE "destroyed"]
    /\ attempt = [p \in Peers |-> 0]
    /\ packet = [p \in Peers |-> NoFrame]
    /\ rlen = [p \in Peers |-> 0]
    /\ chan = [p \in Peers |-> <<>>]
    /\ ret = [p \in Peers |-> NoRet]
    /\ emit = <<>>
    /\ txcount = [p \in Peers |-> 0]
    /\ sendlog = [p \in Peers |-> <<>>]
    /\ delivered = [p \in Peers |-> <<>>]
    /\ nrecv = [p \in Peers |-> 0]
    /\ ninject = 0
    /\ l2pc = "idle"
    /\ l2data = <<>>
    /\ l2sent = 0
    /\ wire = <<>>
    /\ flipped = FALSE
    /\ l2ret = 0
    /\ l2buf = <<>>
    /\ rejected = NoCall
    /\ nrejected = 0

\* No maze has been handed to mazeSolve.
NoMaze ==
    /\ maze = [edgeLen |-> 0, startX |-> 0, startY |-> 0, endX |-> 0, endY |-> 0,
               maze |-> <<>>]
    /\ given = maze
    /\ mazepc = "none"
    /\ calls = 0

\* Operations called so far.
Ops == Len(sendlog["A"]) + Len(sendlog["B"]) + nrecv["A"] + nrecv["B"]

(* ----------------------------- l4sap_send ------------------------------ *)
\* Mutant: a payload longer than L4Payloadsize is not cut.
NoTruncate(len) == len

\* if (len > L4Payloadsize) len = L4Payloadsize
Truncate(len) == Min(len, L4Payloadsize)

\* How a send call meets the peer: it is the first operation on either
\* entity ("first"); or the second one, made while the peer waits in its own
\* l4sap_send, in the first attempt ("crossing") or in a later one
\* ("overlapping"), or in l4sap_recv ("awaited"); or any other ("later").
Scene(p) ==
    IF Ops = 0 THEN "first"
    ELSE IF Ops = 1 /\ pc[Other(p)] = "send" /\ attempt[Other(p)] = 0 THEN "crossing"
    ELSE IF Ops = 1 /\ pc[Other(p)] = "send" THEN "overlapping"
    ELSE IF Ops = 1 /\ pc[Other(p)] = "recv" THEN "awaited"
    ELSE "later"

\* The record of a send call: the caller's bytes, how the call met the peer
\* (kept on the loss-free systems only, whose scenarios it tells apart), and,
\* once the call returned, how it ended and what it returned.
Called(p, data, lossy) ==
    [data |-> data, res |-> "running", n |-> 0,
     scene |-> IF lossy THEN "later" ELSE Scene(p)]

\* The result of the current send call, written into its sendlog record.
Logged(p, code, n) ==
    [sendlog EXCEPT ![p][Len(sendlog[p])] = [@ EXCEPT !.res = code, !.n = n]]

\* return L4_SEND_FAILED, after the step took `taken` datagrams and handed
\* `out` to L2.
SendFails(p, a, taken, out, lossy) ==
    /\ \E K \in Keeps(Other(p), out, lossy) : chan' = Channels(p, taken, out, K)
    /\ emit' = Emitted(p, out)
    /\ attempt' = [attempt EXCEPT ![p] = a]
    /\ pc' = [pc EXCEPT ![p] = "idle"]
    /\ ret' = [ret EXCEPT ![p] = Ret("send", "L4_SEND_FAILED", 0)]
    /\ sendlog' = Logged(p, "L4_SEND_FAILED", 0)

\* Head of the for loop with loop counter a, after the step took `taken`
\* datagrams and already handed `pre` to L2: the next transmission of the
\* DATA frame followed by the wait, or the exit of the loop.
SendLoop(p, a, taken, pre, lossy) ==
    IF a < max_retries
    THEN IF L2SendOk(FrameLen(packet[p]))
         THEN /\ \E K \in Keeps(Other(p), pre \o <<packet[p]>>, lossy) :
                     chan' = Channels(p, taken, pre \o <<packet[p]>>, K)
              /\ emit' = Emitted(p, pre \o <<packet[p]>>)
              /\ attempt' = [attempt EXCEPT ![p] = a]
              /\ txcount' = [txcount EXCEPT ![p] = @ + 1]
              /\ pc' = [pc EXCEPT ![p] = "send"]
              /\ UNCHANGED <<ret, sendlog>>
         ELSE /\ SendFails(p, a, taken, pre, lossy)
              /\ txcount' = [txcount EXCEPT ![p] = @ + 1]
    ELSE /\ SendFails(p, a, taken, pre, lossy)
         /\ UNCHANGED txcount

\* l4sap_send(l4, data, len) with valid arguments, up to its first wait.
L4SendCall(p, data, lossy) ==
    /\ pc[p] = "idle" /\ l2[p]
    /\ Ops < MaxOps
    /\ Len(data) > 0
    /\ LET len == Truncate(Len(data))
           pkt == L4Frame("DATA", send_seqno[p], 0, 0, SubSeq(data, 1, len))
       IN /\ packet' = [packet EXCEPT ![p] = pkt]
          /\ IF L2SendOk(FrameLen(pkt))
             THEN /\ \E K \in Keeps(Other(p), <<pkt>>, lossy) :
                         chan' = Channels(p, 0, <<pkt>>, K)
                  /\ emit' = Emitted(p, <<pkt>>)
                  /\ pc' = [pc EXCEPT ![p] = "send"]
                  /\ sendlog' = [sendlog EXCEPT ![p] = Append(@, Called(p, data, lossy))]
                  /\ UNCHANGED ret
             ELSE /\ emit' = Emitted(p, <<>>)
                  /\ ret' = [ret EXCEPT ![p] = Ret("send", "L4_SEND_FAILED", 0)]
                  /\ sendlog' = [sendlog EXCEPT ![p] =
                         Append(@, [Called(p, data, lossy) EXCEPT !.res = "L4_SEND_FAILED"])]
                  /\ UNCHANGED <<chan, pc>>
    /\ attempt' = [attempt EXCEPT ![p] = 0]
    /\ txcount' = [txcount EXCEPT ![p] = 1]
    /\ UNCHANGED <<l2, l4state, rlen, delivered, nrecv, ninject, l2vars, argvars, mazevars>>

\* l2sap_recvfrom_timeout returned L2_TIMEOUT (select found nothing queued on
\* the socket for one second): continue.
L4SendTimeout(p, lossy) ==
    /\ pc[p] = "send"
    /\ chan[p] = <<>>
    /\ SendLoop(p, attempt[p] + 1, 0, <<>>, lossy)
    /\ UNCHANGED <<l2, l4state, packet, rlen, delivered, nrecv, ninject, l2vars, argvars, mazevars>>

\* Mutant: a sequence number that is never toggled.
Kept(seqno) == seqno

\* l4->send_seqno = 1 - l4->send_seqno; l4->expected_seqno = 1 - l4->expected_seqno
Toggle(seqno) == 1 - seqno

\* if (recv_header->ackno == (1 - l4->send_seqno))
GoodAck(p, f) == f.ackno = 1 - send_seqno[p]

\* Mutant: unexpected DATA is stashed over what the slot holds.
SlotAlwaysFree(p) == TRUE

\* Mutant: unexpected DATA is acknowledged and never stashed.
SlotNeverFree(p) == FALSE

\* if (!l4->pending_data)
SlotFree(p) == pending_data[p] = 0

\* What l4sap_send makes of a received L2 payload of recv_len bytes holding f.
SendCase(p, f, recv_len) ==
    IF recv_len = 0 THEN "timeout"
    ELSE IF recv_len < 0 THEN "error"
    ELSE IF UnsignedLess(recv_len, L4Headersize) THEN "short"
    ELSE IF f.type = "RESET" THEN "reset"
    ELSE IF f.type = "ACK" THEN (IF GoodAck(p, f) THEN "ack" ELSE "badack")
    ELSE IF f.type = "DATA" THEN "data"
    ELSE "other"

\* l2sap_recvfrom_timeout returned the frame at the head of the channel.
L4SendFrame(p, lossy) ==
    /\ pc[p] = "send"
    /\ chan[p] # <<>>
    /\ LET f == Head(chan[p])
           recv_len == L2RecvLen(f)
           case == SendCase(p, f, recv_len)
       IN
       CASE case = "reset" ->
            /\ pc' = [pc EXCEPT ![p] = "idle"]
            /\ ret' = [ret EXCEPT ![p] = Ret("send", "L4_QUIT", 0)]
            /\ sendlog' = Logged(p, "L4_QUIT", 0)
            /\ chan' = Channels(p, 1, <<>>, {})
            /\ emit' = Emitted(p, <<>>)
            /\ UNCHANGED <<l4state, attempt, txcount>>
         [] case = "ack" ->
            /\ send_seqno' = [send_seqno EXCEPT ![p] = Toggle(@)]
            /\ pc' = [pc EXCEPT ![p] = "idle"]
            /\ ret' = [ret EXCEPT ![p] = Ret("send", "ok", Len(packet[p].pl))]
            /\ sendlog' = Logged(p, "ok", Len(packet[p].pl))
            /\ chan' = Channels(p, 1, <<>>, {})
            /\ emit' = Emitted(p, <<>>)
            /\ UNCHANGED <<expected_seqno, pending_data, pending_header,
                           pending_pl_buffer, attempt, txcount>>
         [] case = "data" ->
            LET payload_len == Min(recv_len - L4Headersize, L4Payloadsize) IN
            /\ IF SlotFree(p)
               THEN /\ pending_data' = [pending_data EXCEPT ![p] = 1]
                    /\ pending_header' = [pending_header EXCEPT ![p] = [f EXCEPT !.pl = <<>>]]
                    /\ pending_pl_buffer' = [pending_pl_buffer EXCEPT ![p] = Take(f.pl, payload_len)]
               ELSE UNCHANGED <<pending_data, pending_header, pending_pl_buffer>>
            /\ SendLoop(p, attempt[p] + 1, 1, <<AckFor(f.seqno)>>, lossy)
            /\ UNCHANGED <<send_seqno, expected_seqno>>
         [] OTHER ->
            /\ SendLoop(p, attempt[p] + 1, 1, <<>>, lossy)
            /\ UNCHANGED l4state
    /\ UNCHANGED <<l2, packet, rlen, delivered, nrecv, ninject, l2vars, argvars, mazevars>>

(* ----------------------------- l4sap_recv ------------------------------ *)
\* Mutant: the pending path delivers a stashed DATA frame whatever its
\* sequence number.
PendingAnySeqno(p) == pending_header[p].type = "DATA"

\* if (hdr->type == L4_DATA && hdr->seqno == l4->expected_seqno)
PendingExpected(p) ==
    pending_header[p].type = "DATA" /\ pending_header[p].seqno = expected_seqno[p]

\* l4sap_recv(l4, data, len) with valid arguments: the pending slot, then the
\* entry of the network loop.
L4RecvCall(p, len, lossy) ==
    /\ pc[p] = "idle" /\ l2[p]
    /\ Ops < MaxOps
    /\ len > 0
    /\ nrecv' = [nrecv EXCEPT ![p] = @ + 1]
    /\ rlen' = [rlen EXCEPT ![p] = len]
    /\ IF pending_data[p] # 0
       THEN LET out == <<AckFor(pending_header[p].seqno)>> IN
            /\ \E K \in Keeps(Other(p), out, lossy) : chan' = Channels(p, 0, out, K)
            /\ emit' = Emitted(p, out)
            /\ pending_data' = [pending_data EXCEPT ![p] = 0]
            /\ IF PendingExpected(p)
               THEN LET copy_len == Min(Len(pending_pl_buffer[p]), len) IN
                    /\ delivered' = [delivered EXCEPT ![p] =
                           Append(@, SubSeq(pending_pl_buffer[p], 1, copy_len))]
                    /\ expected_seqno' = [expected_seqno EXCEPT ![p] = Toggle(@)]
                    /\ ret' = [ret EXCEPT ![p] = Ret("recv", "ok", copy_len)]
                    /\ UNCHANGED <<pc, packet>>
               ELSE /\ pc' = [pc EXCEPT ![p] = "recv"]
                    /\ packet' = [packet EXCEPT ![p] = NoFrame]
                    /\ UNCHANGED <<delivered, expected_seqno, ret>>
       ELSE /\ pc' = [pc EXCEPT ![p] = "recv"]
            /\ packet' = [packet EXCEPT ![p] = NoFrame]
            /\ emit' = Emitted(p, <<>>)
            /\ UNCHANGED <<chan, pending_data, delivered, expected_seqno, ret>>
    /\ UNCHANGED <<l2, send_seqno, pending_header, pending_pl_buffer, attempt,
                   txcount, sendlog, ninject, l2vars, argvars, mazevars>>

\* Mutant: the network loop delivers a DATA frame whatever its sequence
\* number.
ExpectedAnySeqno(p, f) == TRUE

\* if (header->seqno == l4->expected_seqno)
Expected(p, f) == f.seqno = expected_seqno[p]

\* Mutant: the network loop ignores a DATA frame with another sequence number.
RecvCaseNoReAck(p, f, recv_len) ==
    IF recv_len = 0 THEN "timeout"
    ELSE IF UnsignedLess(recv_len, L4Headersize) THEN "short"
    ELSE IF f.mbz # 0 THEN "mbz"
    ELSE IF f.type = "RESET" THEN "reset"
    ELSE IF f.type = "DATA" THEN (IF Expected(p, f) THEN "deliver" ELSE "other")
    ELSE "other"

\* Mutant: the network loop does not know the RESET frame.
RecvCaseNoReset(p, f, recv_len) ==
    IF recv_len = 0 THEN "timeout"
    ELSE IF UnsignedLess(recv_len, L4Headersize) THEN "short"
    ELSE IF f.mbz # 0 THEN "mbz"
    ELSE IF f.type = "DATA" THEN (IF Expected(p, f) THEN "deliver" ELSE "dup")
    ELSE "other"

\* What the network loop of l4sap_recv makes of the return value recv_len of
\* l2sap_recvfrom_timeout and of the frame f then in its buffer.
RecvCase(p, f, recv_len) ==
    IF recv_len = 0 THEN "timeout"
    ELSE IF UnsignedLess(recv_len, L4Headersize) THEN "short"
    ELSE IF f.mbz # 0 THEN "mbz"
    ELSE IF f.type = "RESET" THEN "reset"
    ELSE IF f.type = "DATA" THEN (IF Expected(p, f) THEN "deliver" ELSE "dup")
    ELSE "other"

\* The network loop of l4sap_recv: l2sap_recvfrom_timeout handled the datagram
\* at the head of the channel.  A deliver with a negative payload_len (memcpy
\* of (size_t) payload_len bytes) ends the process.
L4RecvFrame(p, lossy) ==
    /\ pc[p] = "recv"
    /\ chan[p] # <<>>
    /\ LET recv_len == L2RecvLen(Head(chan[p]))
           f == L2RecvBuf(packet[p], Head(chan[p]))
           payload_len == recv_len - L4Headersize
           case == RecvCase(p, f, recv_len)
           out == <<AckFor(f.seqno)>>
       IN
       /\ packet' = [packet EXCEPT ![p] = f]
       /\ CASE case = "reset" ->
               /\ pc' = [pc EXCEPT ![p] = "idle"]
               /\ ret' = [ret EXCEPT ![p] = Ret("recv", "L4_QUIT", 0)]
               /\ chan' = Channels(p, 1, <<>>, {})
               /\ emit' = Emitted(p, <<>>)
               /\ UNCHANGED <<delivered, expected_seqno>>
            [] case = "deliver" /\ payload_len < 0 ->
               /\ pc' = [pc EXCEPT ![p] = "crashed"]
               /\ chan' = Channels(p, 1, <<>>, {})
               /\ emit' = Emitted(p, <<>>)
               /\ UNCHANGED <<ret, delivered, expected_seqno>>
            [] case = "deliver" /\ payload_len >= 0 ->
               /\ \E K \in Keeps(Other(p), out, lossy) : chan' = Channels(p, 1, out, K)
               /\ emit' = Emitted(p, out)
               /\ delivered' = [delivered EXCEPT ![p] = Append(@, SubSeq(f.pl, 1, payload_len))]
               /\ expected_seqno' = [expected_seqno EXCEPT ![p] = Toggle(@)]
               /\ ret' = [ret EXCEPT ![p] = Ret("recv", "ok", payload_len)]
               /\ pc' = [pc EXCEPT ![p] = "idle"]
            [] case = "dup" ->
               /\ \E K \in Keeps(Other(p), out, lossy) : chan' = Channels(p, 1, out, K)
               /\ emit' = Emitted(p, out)
               /\ UNCHANGED <<pc, ret, delivered, expected_seqno>>
            [] OTHER ->
               /\ chan' = Channels(p, 1, <<>>, {})
               /\ emit' = Emitted(p, <<>>)
               /\ UNCHANGED <<pc, ret, delivered, expected_seqno>>
    /\ UNCHANGED <<l2, send_seqno, pending_data, pending_header, pending_pl_buffer,
                   attempt, rlen, txcount, sendlog, nrecv, ninject, l2vars, argvars, mazevars>>

(* ---------------------------- l4sap_destroy ---------------------------- *)
\* l2sap_destroy closes the socket (what was queued on it is gone), then the
\* entity is freed.
L4Destroy(p) ==
    /\ pc[p] = "idle" /\ l2[p]
    /\ l2' = [l2 EXCEPT ![p] = FALSE]
    /\ pc' = [pc EXCEPT ![p] = "destroyed"]
    /\ chan' = [chan EXCEPT ![p] = <<>>]
    /\ emit' = Emitted(p, <<>>)
    /\ UNCHANGED <<l4state, attempt, packet, rlen, ret, txcount, sendlog,
                   delivered, nrecv, ninject, l2vars, argvars, mazevars>>

(* ------------------------- the lossy-channel system -------------------- *)
\* The caller's buffer of n bytes for the k-th l4sap_send of an entity: byte i
\* is 10 * k + i.
Data(k, n) == [i \in 1 .. n |-> 10 * k + i]

\* In the lossy system every payload is one byte.
NextData(p) == Data(Len(sendlog[p]) + 1, 1)

Next ==
    \/ \E p \in Peers : L4SendCall(p, NextData(p), TRUE)
    \/ \E p \in Peers : L4SendTimeout(p, TRUE)
    \/ \E p \in Peers : L4SendFrame(p, TRUE)
    \/ \E p \in Peers : L4RecvCall(p, L4Payloadsize, TRUE)
    \/ \E p \in Peers : L4RecvFrame(p, TRUE)

Init == Created(Peers) /\ NoMaze

Spec == Init /\ [][Next]_vars

(* ------------------------ the perfect-channel system ------------------- *)
\* The channels lose nothing, and the one-second timer of l4sap_send expires
\* only when the peer is not about to answer: it is outside every operation,
\* or blocked on an empty socket.
Quiet(p) ==
    \/ pc[Other(p)] \in {"idle", "destroyed"}
    \/ chan[Other(p)] = <<>>

\* The caller's len of an l4sap_send: one byte, a full payload, one byte more.
SendLens == {1, L4Payloadsize, L4Payloadsize + 1}

L4SendTimeoutQuiet(p) == Quiet(p) /\ L4SendTimeout(p, FALSE)

NextPerfect ==
    \/ \E p \in Peers : \E n \in SendLens :
           L4SendCall(p, Data(Len(sendlog[p]) + 1, n), FALSE)
    \/ \E p \in Peers : L4SendTimeoutQuiet(p)
    \/ \E p \in Peers : L4SendFrame(p, FALSE)
    \/ \E p \in Peers : L4RecvCall(p, L4Payloadsize, FALSE)
    \/ \E p \in Peers : L4RecvFrame(p, FALSE)

SpecPerfect == Init /\ [][NextPerfect]_vars

(* ------------------ the perfect channel, prompt peers ------------------ *)
\* The two entities on the perfect channel when each answers the frames it
\* receives before the one-second timer of the other runs out: select in
\* l4sap_send never returns 0.
NextPrompt ==
    \/ \E p \in Peers : L4SendCall(p, NextData(p), FALSE)
    \/ \E p \in Peers : L4SendFrame(p, FALSE)
    \/ \E p \in Peers : L4RecvCall(p, L4Payloadsize, FALSE)
    \/ \E p \in Peers : L4RecvFrame(p, FALSE)

SpecPrompt == Init /\ [][NextPrompt]_vars

(* ----------------------------- the open system ------------------------- *)
\* Entity A alone: its peer is the environment, which puts any L4 frame on
\* A's socket (the L2 layer does not check who sent a datagram).
InitOpen == Created({"A"}) /\ NoMaze

\* The frames the environment sends: every type, both sequence and
\* acknowledgement numbers, mbz zero or not, a payload or none; a datagram with
\* a wrong checksum; a frame shorter than the L4 header.
WireFrames ==
    {L4Frame("DATA", s, 0, m, pl) : s \in {0, 1}, m \in {0, 1}, pl \in {<<>>, <<7>>}}
    \cup {L4Frame("ACK", 0, a, m, <<>>) : a \in {0, 1}, m \in {0, 1}}
    \cup {L4Frame("RESET", 0, 0, m, <<>>) : m \in {0, 1}}
    \cup {Flipped(L4Frame("DATA", 0, 0, 0, <<7>>)), ShortFrame}

Inject(p, f) ==
    /\ l2[p]
    /\ ninject < MaxInject
    /\ Len(chan[p]) < MaxChan
    /\ ninject' = ninject + 1
    /\ chan' = [chan EXCEPT ![p] = Append(@, f)]
    /\ UNCHANGED <<l2, l4state, pc, attempt, packet, rlen, ret, emit, txcount,
                   sendlog, delivered, nrecv, l2vars, argvars, mazevars>>

NextOpen ==
    \/ L4SendCall("A", NextData("A"), FALSE)
    \/ L4SendTimeout("A", FALSE)
    \/ L4SendFrame("A", FALSE)
    \/ L4RecvCall("A", L4Payloadsize, FALSE)
    \/ L4RecvFrame("A", FALSE)
    \/ \E f \in WireFrames : Inject("A", f)
    \/ L4Destroy("A")

SpecOpen == InitOpen /\ [][NextOpen]_vars

\* The wait of l4sap_send ends: select returns within its one-second timeout.
L4SendWait(p) == L4SendTimeout(p, FALSE) \/ L4SendFrame(p, FALSE)

SpecOpenFair == SpecOpen /\ WF_vars(L4SendWait("A"))

(* ------------------------ the bit-flipping channel --------------------- *)
\* A sends and B receives over the perfect channel, on which DATA frames on
\* their way to B may have a bit flipped (l2sap_recvfrom_timeout then returns
\* -1 for them, see the L2 layer below).
FlipInFlight(p, i) ==
    /\ ninject < MaxInject
    /\ i \in 1 .. Len(chan[p])
    /\ chan[p][i].type = "DATA"
    /\ ninject' = ninject + 1
    /\ chan' = [chan EXCEPT ![p][i] = Flipped(@)]
    /\ UNCHANGED <<l2, l4state, pc, attempt, packet, rlen, ret, emit, txcount,
                   sendlog, delivered, nrecv, l2vars, argvars, mazevars>>

NextFlip ==
    \/ L4SendCall("A", NextData("A"), FALSE)
    \/ L4SendTimeoutQuiet("A")
    \/ L4SendFrame("A", FALSE)
    \/ L4RecvCall("B", L4Payloadsize, FALSE)
    \/ L4RecvFrame("B", FALSE)
    \/ \E i \in 1 .. MaxChan + max_retries : FlipInFlight("B", i)

SpecFlip == Init /\ [][NextFlip]_vars

\* select returns: within one second in l4sap_send, and as soon as a datagram
\* is queued in l4sap_recv.
SpecFlipFair ==
    /\ SpecFlip
    /\ WF_vars(L4SendTimeoutQuiet("A") \/ L4SendFrame("A", FALSE))
    /\ WF_vars(L4RecvFrame("B", FALSE))

(* ------------------ the open system with long payloads ---------------- *)
\* Entity A against the environment, its l4sap_send called with payloads of
\* every length of SendLens.
\* The frames of a peer that follows the protocol.
PeerFrames ==
    {L4Frame("DATA", s, 0, 0, <<7>>) : s \in {0, 1}}
    \cup {L4Frame("ACK", 0, a, 0, <<>>) : a \in {0, 1}}

\* The caller's len of an l4sap_send: one byte, or one more than a full
\* payload.
TxLens == {1, L4Payloadsize + 1}

NextTx ==
    \/ \E n \in TxLens : L4SendCall("A", Data(Len(sendlog["A"]) + 1, n), FALSE)
    \/ L4SendTimeout("A", FALSE)
    \/ L4SendFrame("A", FALSE)
    \/ L4RecvCall("A", L4Payloadsize, FALSE)
    \/ L4RecvFrame("A", FALSE)
    \/ \E f \in PeerFrames : Inject("A", f)

SpecTx == InitOpen /\ [][NextTx]_vars

(* ------------------ the open system with short buffers ---------------- *)
\* The caller's len of an l4sap_recv: one byte, or a full payload.
RecvLens == {1, L4Payloadsize}

\* The frames of a peer that follows the protocol, its DATA frames carrying
\* every payload length from 0 to L4Payloadsize.
PeerFramesOfAnyLength ==
    {L4Frame("DATA", s, 0, 0, Data(7, n)) : s \in {0, 1}, n \in 0 .. L4Payloadsize}
    \cup {L4Frame("ACK", 0, a, 0, <<>>) : a \in {0, 1}}

\* Entity A against the environment, its l4sap_recv called with buffers of
\* every length of RecvLens.
NextRecv ==
    \/ L4SendCall("A", NextData("A"), FALSE)
    \/ L4SendTimeout("A", FALSE)
    \/ L4SendFrame("A", FALSE)
    \/ \E len \in RecvLens : L4RecvCall("A", len, FALSE)
    \/ L4RecvFrame("A", FALSE)
    \/ \E f \in PeerFramesOfAnyLength : Inject("A", f)

SpecRecv == InitOpen /\ [][NextRecv]_vars

(* ------------------- the open system with any arguments ---------------- *)
\* Entity A against a peer that follows the protocol; the calls made on A have
\* valid or invalid arguments.
\* A pointer argument: NULL or not.
Pointers == {"null", "ok"}

\* The values of len around zero.
CallLens == {-1, 0, 1}

\* Mutant: the parameter validation lets len = 0 through.
ArgsOkLenZero(l4, data, len) == l4 # "null" /\ data # "null" /\ len >= 0

\* The negation of `!l4 || !l4->l2 || !data || len <= 0` (the L2 entity of an
\* existing L4 entity exists).
ArgsOk(l4, data, len) == l4 # "null" /\ data # "null" /\ len > 0

\* What the operations return when the validation fails: L4_SEND_FAILED from
\* l4sap_send, -1 from l4sap_recv.
Rejected(op) == Ret(op, IF op = "send" THEN "L4_SEND_FAILED" ELSE "-1", 0)

\* l4sap_send(l4, data, len) with arguments that fail the validation.
L4SendRejected(p, l4, data, len) ==
    /\ pc[p] = "idle" /\ l2[p]
    /\ nrejected < MaxRejected
    /\ ~ArgsOk(l4, data, len)
    /\ rejected' = Call("send", l4, data, len)
    /\ nrejected' = nrejected + 1
    /\ ret' = [ret EXCEPT ![p] = Rejected("send")]
    /\ emit' = <<>>
    /\ UNCHANGED <<l2, l4state, pc, attempt, packet, rlen, chan, txcount,
                   sendlog, delivered, nrecv, ninject, l2vars, mazevars>>

\* l4sap_recv(l4, data, len) with arguments that fail the validation.
L4RecvRejected(p, l4, data, len) ==
    /\ pc[p] = "idle" /\ l2[p]
    /\ nrejected < MaxRejected
    /\ ~ArgsOk(l4, data, len)
    /\ rejected' = Call("recv", l4, data, len)
    /\ nrejected' = nrejected + 1
    /\ ret' = [ret EXCEPT ![p] = Rejected("recv")]
    /\ emit' = <<>>
    /\ UNCHANGED <<l2, l4state, pc, attempt, packet, rlen, chan, txcount,
                   sendlog, delivered, nrecv, ninject, l2vars, mazevars>>

\* The arguments of the calls made: one of them invalid at a time.
BadArgs == {<<"null", "ok", 1>>, <<"ok", "null", 1>>, <<"ok", "ok", 0>>, <<"ok", "ok", -1>>}

NextArgs ==
    \/ L4SendCall("A", NextData("A"), FALSE)
    \/ L4SendTimeout("A", FALSE)
    \/ L4SendFrame("A", FALSE)
    \/ L4RecvCall("A", L4Payloadsize, FALSE)
    \/ L4RecvFrame("A", FALSE)
    \/ \E f \in PeerFrames : Inject("A", f)
    \/ \E a \in BadArgs : L4SendRejected("A", a[1], a[2], a[3])
    \/ \E a \in BadArgs : L4RecvRejected("A", a[1], a[2], a[3])

SpecArgs == InitOpen /\ [][NextArgs]_vars

(* ------------------------- the L2 layer, byte by byte ------------------ *)
\* One datagram: l2sap_sendto frames a payload, the wire may flip one bit of
\* it, l2sap_recvfrom_timeout takes it.

\* a ^ b on bytes.
RECURSIVE Xor(_, _)
Xor(a, b) ==
    IF a = 0 THEN b
    ELSE IF b = 0 THEN a
    ELSE ((a + b) % 2) + 2 * Xor(a \div 2, b \div 2)

\* Mutant: the checksum covers the payload and skips the header.
RECURSIVE ChecksumOfPayload(_, _)
ChecksumOfPayload(frame, len) ==
    IF len <= L2Headersize THEN 0
    ELSE Xor(ChecksumOfPayload(frame, len - 1), frame[len])

\* compute_checksum(frame, len)
RECURSIVE compute_checksum(_, _)
compute_checksum(frame, len) ==
    IF len = 0 THEN 0 ELSE Xor(compute_checksum(frame, len - 1), frame[len])

\* A 16-bit value in network byte order.
NetBytes(v) == <<v \div 256, v % 256>>
FromNet(hi, lo) == 256 * hi + lo

\* The low 16 bits of peer_addr.sin_addr.s_addr of the entities modelled.
PeerAddrs == {127, 43200}

\* The bytes payloads are made of.
L2Bytes == {0, 165}

\* The payloads handed to l2sap_sendto: every length the layer accepts, and
\* one more.
L2Payloads == UNION {[1 .. n -> L2Bytes] : n \in 0 .. L2Payloadsize + 1}

\* The frame l2sap_sendto builds: the header with the checksum field at zero,
\* then the payload; then the checksum is written into its field (byte 5).
L2FrameOf(addr, data) ==
    LET len == Len(data)
        zero == NetBytes(addr) \o NetBytes(len + L2Headersize) \o <<0, 0>> \o data
    IN [zero EXCEPT ![5] = compute_checksum(zero, len + L2Headersize)]

\* l2sap_sendto(client, data, len)
L2SapSendto(addr, data) ==
    /\ l2pc = "idle"
    /\ l2data' = data
    /\ IF L2SendOk(Len(data))
       THEN /\ wire' = L2FrameOf(addr, data)
            /\ l2sent' = Len(data)
            /\ l2pc' = "sent"
       ELSE /\ l2sent' = -1
            /\ UNCHANGED <<wire, l2pc>>
    /\ UNCHANGED <<flipped, l2ret, l2buf>>

\* Byte v with bit b inverted.
FlipBit(v, b) == IF (v \div (2 ^ b)) % 2 = 1 THEN v - 2 ^ b ELSE v + 2 ^ b

\* The wire inverts bit b of byte i of the datagram.
L2Flip(i, b) ==
    /\ l2pc = "sent" /\ ~flipped
    /\ i \in 1 .. Len(wire)
    /\ wire' = [wire EXCEPT ![i] = FlipBit(@, b)]
    /\ flipped' = TRUE
    /\ UNCHANGED <<l2pc, l2data, l2sent, l2ret, l2buf>>

\* Byte i of the receive buffer `frame` of L2Framesize zeroed bytes after
\* recvfrom wrote the datagram into it; beyond the buffer the byte is
\* indeterminate (-1).
FrameByte(i) ==
    IF i <= Len(wire) /\ i <= L2Framesize THEN wire[i]
    ELSE IF i <= L2Framesize THEN 0
    ELSE -1

\* What l2sap_recvfrom_timeout returns for the datagram on the wire and a
\* caller's buffer of len bytes, and the bytes it copies into that buffer.
L2Received(len) ==
    LET received == Min(Len(wire), L2Framesize)
        frame == [i \in 1 .. received |-> IF i = 5 THEN 0 ELSE wire[i]]
        received_checksum == wire[5]
        calculated_checksum == compute_checksum(frame, received)
        payload_len == (FromNet(wire[3], wire[4]) - L2Headersize) % 65536
    IN IF len <= 0 THEN [ret |-> -1, buf |-> <<>>]
       ELSE IF received < L2Headersize THEN [ret |-> -1, buf |-> <<>>]
       ELSE IF received_checksum # calculated_checksum THEN [ret |-> -1, buf |-> <<>>]
       ELSE IF payload_len > len THEN [ret |-> -1, buf |-> <<>>]
       ELSE [ret |-> payload_len,
             buf |-> [i \in 1 .. payload_len |-> FrameByte(L2Headersize + i)]]

\* l2sap_recvfrom_timeout(client, data, len, timeout) once select reported the
\* datagram.
L2SapRecvfrom(len) ==
    /\ l2pc = "sent"
    /\ l2ret' = L2Received(len).ret
    /\ l2buf' = L2Received(len).buf
    /\ l2pc' = "received"
    /\ UNCHANGED <<l2data, l2sent, wire, flipped>>

\* The receive buffer sizes the L4 layer passes: L4Framesize in l4sap_send,
\* L2Framesize in l4sap_recv.
L2RecvLens == {L4Framesize, L2Framesize}

l4vars == <<l2, l4state, pc, attempt, packet, rlen, chan, ret, emit, txcount,
            sendlog, delivered, nrecv, ninject, argvars, mazevars>>

NextL2 ==
    \/ \E addr \in PeerAddrs : \E data \in L2Payloads :
           L2SapSendto(addr, data) /\ UNCHANGED l4vars
    \/ \E i \in 1 .. L2Framesize : \E b \in 0 .. 7 : L2Flip(i, b) /\ UNCHANGED l4vars
    \/ \E len \in L2RecvLens : L2SapRecvfrom(len) /\ UNCHANGED l4vars

InitL2 == Created({}) /\ NoMaze

SpecL2 == InitL2 /\ [][NextL2]_vars

(* ------------------------ buffers, byte by byte ------------------------ *)
\* The value of a byte of a buffer that has not been written.
Indeterminate == -1

\* uint8_t buf[n]; declared without an initialiser.
Declared(n) == [i \in 1 .. n |-> Indeterminate]

\* memset(buf, 0, n)
Zeroed(buf, n) == [i \in 1 .. Len(buf) |-> IF i <= n THEN 0 ELSE buf[i]]

\* memcpy(dst + off, src, n); what lies behind the end of src is indeterminate.
Copied(dst, off, src, n) ==
    [i \in 1 .. Len(dst) |->
        IF i > off /\ i <= off + n
        THEN IF i - off <= Len(src) THEN src[i - off] ELSE Indeterminate
        ELSE dst[i]]

\* The len bytes a callee reads from buf; behind its end they are
\* indeterminate.
Read(buf, len) == [i \in 1 .. len |-> IF i <= Len(buf) THEN buf[i] ELSE Indeterminate]

\* The byte of the type field (the values of L4_DATA, L4_ACK and L4_RESET are
\* three different ones).
TypeByte(t) == CASE t = "DATA" -> 1 [] t = "ACK" -> 2 [] t = "RESET" -> 3 [] OTHER -> 0

\* l4sap_send's buffer `packet` when the loop is entered.
data_packet(seqno, data, len) ==
    LET zero == Zeroed(Declared(L4Framesize), L4Framesize)
        header == [zero EXCEPT ![1] = TypeByte("DATA"), ![2] = seqno, ![3] = 0, ![4] = 0]
    IN Copied(header, L4Headersize, data, len)

\* Mutant: the mbz field of the ACK is not assigned.
ack_packet_without_mbz(ackno) ==
    [Declared(L4Headersize) EXCEPT ![1] = TypeByte("ACK"), ![2] = 0, ![3] = ackno]

\* The buffer `ack_packet` of l4sap_send and l4sap_recv when it is handed to
\* l2sap_sendto.
ack_packet(ackno) ==
    [Declared(L4Headersize) EXCEPT ![1] = TypeByte("ACK"), ![2] = 0, ![4] = 0, ![3] = ackno]

\* The buffer the L4 layer hands to l2sap_sendto for frame f, with the length
\* FrameLen(f).
HandedToL2(f) ==
    IF f.type = "DATA" THEN data_packet(f.seqno, f.pl, Len(f.pl)) ELSE ack_packet(f.ackno)

\* compute_checksum over bytes of which some may be indeterminate.
Checksum(frame, len) ==
    IF \E i \in 1 .. len : frame[i] = Indeterminate THEN Indeterminate
    ELSE compute_checksum(frame, len)

\* l2sap_sendto's buffer `frame` when it is handed to sendto, with the length
\* len + L2Headersize.
l2_frame(addr, data, len) ==
    LET zero == Zeroed(Declared(L2Framesize), L2Framesize)
        header == [zero EXCEPT ![1] = NetBytes(addr)[1], ![2] = NetBytes(addr)[2],
                               ![3] = NetBytes(len + L2Headersize)[1],
                               ![4] = NetBytes(len + L2Headersize)[2],
                               ![5] = 0, ![6] = 0]
        whole == Copied(header, L2Headersize, data, len)
    IN [whole EXCEPT ![5] = Checksum(whole, len + L2Headersize)]

(* ------------------------------ mazeSolve ------------------------------ *)
\* The flags of a cell (uint8_t), each one bit: a cell is the set of the flags
\* it carries, `cell & flag` is membership and `cell |= flag` is union.
right == "right"
left == "left"
down == "down"
up == "up"
mark == "mark"

Passages == {right, left, down, up}

\* The four blocks of dfs, in the order of the code: the flag tested on the
\* cell, the flag tested on the neighbour, and the neighbour's offset.
Directions ==
    << [bit |-> right, back |-> left, dx |-> 1, dy |-> 0],
       [bit |-> left, back |-> right, dx |-> -1, dy |-> 0],
       [bit |-> down, back |-> up, dx |-> 0, dy |-> 1],
       [bit |-> up, back |-> down, dx |-> 0, dy |-> -1] >>

is_valid(x, y, n) == x >= 0 /\ x < n /\ y >= 0 /\ y < n

\* maze->maze[idx] |= mark
Marked(m, idx) == [m EXCEPT !.maze[idx] = @ \cup {mark}]

\* Mutant: the neighbour's own flag is not consulted.
PassableOneSided(s, cell, d, nx, ny) ==
    /\ d.bit \in cell
    /\ is_valid(nx, ny, s.maze.edgeLen)
    /\ s.visited[ny * s.maze.edgeLen + nx] = 0

\* The conditions under which a block of dfs descends into the neighbour
\* (nx, ny): (cell & bit) && is_valid(nx, ny, n), then
\* !visited[next] && (maze->maze[next] & back).
Passable(s, cell, d, nx, ny) ==
    /\ d.bit \in cell
    /\ is_valid(nx, ny, s.maze.edgeLen)
    /\ s.visited[ny * s.maze.edgeLen + nx] = 0
    /\ d.back \in s.maze.maze[ny * s.maze.edgeLen + nx]

RECURSIVE dfs(_, _, _, _)

\* One block of dfs for the direction d, entered in the state s the blocks
\* before it left: the maze, the visited array, ret = 1 when a block has
\* already returned 1, and the invocations of dfs so far.
Block(s, x, y, cell, d) ==
    IF s.ret = 1
    THEN s
    ELSE IF Passable(s, cell, d, x + d.dx, y + d.dy)
         THEN LET r == dfs(s.maze, x + d.dx, y + d.dy, s.visited)
              IN  IF r.ret = 1
                  THEN [maze |-> Marked(r.maze, y * s.maze.edgeLen + x),
                        visited |-> r.visited, ret |-> 1, calls |-> s.calls + r.calls]
                  ELSE [r EXCEPT !.calls = s.calls + @]
         ELSE s

\* int dfs(maze, x, y, visited), with a maze and a visited array that exist:
\* the maze and the visited array it leaves, its return value, and the
\* invocations of dfs it took, itself included.
dfs(m, x, y, visited) ==
    LET n == m.edgeLen
        idx == y * n + x
    IN  IF idx < 0 \/ idx >= n * n
        THEN [maze |-> m, visited |-> visited, ret |-> 0, calls |-> 1]
        ELSE IF x = m.endX /\ y = m.endY
             THEN [maze |-> Marked(m, idx), visited |-> visited, ret |-> 1, calls |-> 1]
             ELSE LET entered == [maze |-> m, visited |-> [visited EXCEPT ![idx] = 1],
                                  ret |-> 0, calls |-> 1]
                      cell == m.maze[idx]
                  IN  Block(Block(Block(Block(entered, x, y, cell, Directions[1]),
                                        x, y, cell, Directions[2]),
                                  x, y, cell, Directions[3]),
                            x, y, cell, Directions[4])

\* void mazeSolve(maze): calloc gives a visited array of zeros.
mazeSolve(m) ==
    dfs(m, m.startX, m.startY, [i \in 0 .. m.edgeLen * m.edgeLen - 1 |-> 0])

\* The edge lengths of the mazes handed to mazeSolve.
EdgeLens == {1, 2}

\* The passage flags of cell i of a maze of edge n that lead to a neighbour.
Inward(i, n) ==
    {Directions[k].bit : k \in {k \in 1 .. 4 :
        is_valid((i % n) + Directions[k].dx, (i \div n) + Directions[k].dy, n)}}

\* The values of cell i: any of the flags towards its neighbours, and either
\* none or all of the flags towards the outside of the grid.
CellsAt(i, n) ==
    {in \cup out : in \in SUBSET Inward(i, n), out \in {{}, Passages \ Inward(i, n)}}

\* The mazes handed to mazeSolve: start and end anywhere in the grid, a
\* passage declared by neither, one or both of the two cells it joins, no
\* cell marked.
Mazes ==
    UNION {[edgeLen : {n}, startX : 0 .. n - 1, startY : 0 .. n - 1,
            endX : 0 .. n - 1, endY : 0 .. n - 1,
            maze : {c \in [0 .. n * n - 1 -> SUBSET Passages] :
                       \A i \in 0 .. n * n - 1 : c[i] \in CellsAt(i, n)}] : n \in EdgeLens}

netvars == <<l2, l4state, pc, attempt, packet, rlen, chan, ret, emit, txcount,
             sendlog, delivered, nrecv, ninject, l2vars, argvars>>

\* No entity, and no maze yet.
InitMaze == Created({}) /\ NoMaze

\* The caller hands a maze to mazeSolve.
MazeGiven ==
    /\ mazepc = "none"
    /\ maze' \in Mazes
    /\ given' = maze'
    /\ mazepc' = "called"
    /\ UNCHANGED <<calls, netvars>>

\* mazeSolve(maze), from the call to the return.
MazeSolve ==
    /\ mazepc = "called"
    /\ maze' = mazeSolve(maze).maze
    /\ calls' = mazeSolve(maze).calls
    /\ mazepc' = "returned"
    /\ UNCHANGED <<given, netvars>>

NextMaze == MazeGiven \/ MazeSolve

SpecMaze == InitMaze /\ [][NextMaze]_vars

(* ========================= properties of the L2 layer =================== *)
\* C9: l2sap_recvfrom_timeout returns -1 and copies nothing for a frame of
\* l2sap_sendto in which one bit was flipped, whichever bit it is; it accepts
\* the frame as sent, returning the length of the payload and copying the
\* payload.
C9_SingleBitFlipIsRejected ==
    l2pc = "received" =>
        IF flipped
        THEN l2ret = -1 /\ l2buf = <<>>
        ELSE l2ret = Len(l2data) /\ l2buf = l2data

\* C9 witness: a frame with a full payload was rejected after a flip in its
\* payload.
C9_Witness ==
    /\ l2pc = "received" /\ flipped /\ l2ret = -1
    /\ Len(l2data) = L2Payloadsize
    /\ \E i \in L2Headersize + 1 .. Len(wire) : wire[i] \notin L2Bytes

(* ======================= properties of the L4 protocol ================== *)
\* The payload the k-th l4sap_send of p put into its DATA frame.
Accepted(p, k) == Take(sendlog[p][k].data, L4Payloadsize)

\* How many l4sap_recv calls of q returned the payload pl.
Returned(q, pl) == Cardinality({i \in 1 .. Len(delivered[q]) : delivered[q][i] = pl})

\* The pending slot of q holds pl and the next l4sap_recv of q returns it.
HeldForNextRecv(q, pl) ==
    /\ pending_data[q] = 1
    /\ pending_header[q].type = "DATA"
    /\ pending_header[q].seqno = expected_seqno[q]
    /\ pending_pl_buffer[q] = pl

\* C1: on the lossy channel, every payload whose l4sap_send returned success
\* has been returned by exactly one l4sap_recv of the peer, or is held in the
\* peer's pending slot for its next l4sap_recv; it is never dropped.
C1_ConfirmedSendIsHandedOver ==
    \A p \in Peers : \A k \in 1 .. Len(sendlog[p]) :
        sendlog[p][k].res = "ok" =>
            \/ Returned(Other(p), Accepted(p, k)) = 1 /\ ~HeldForNextRecv(Other(p), Accepted(p, k))
            \/ Returned(Other(p), Accepted(p, k)) = 0 /\ HeldForNextRecv(Other(p), Accepted(p, k))

\* C2: on the lossy channel, whatever is retransmitted, no payload of an
\* l4sap_send call is returned by more than one l4sap_recv call of the peer
\* (the payloads of different send calls differ).
C2_NoDoubleDelivery ==
    \A q \in Peers : \A i, j \in 1 .. Len(delivered[q]) :
        delivered[q][i] = delivered[q][j] => i = j

\* C2 witness: a receiver that delivered a payload went on to read a
\* retransmission of it in a second l4sap_recv, which it acknowledged again
\* (two ACKs on their way back) and did not deliver.
C2_Witness ==
    \E q \in Peers :
        /\ nrecv[q] = 2 /\ pc[q] = "recv" /\ Len(delivered[q]) = 1
        /\ chan[q] = <<>>
        /\ chan[Other(q)] = <<AckFor(0), AckFor(0)>>
        /\ txcount[Other(q)] >= 2

RECURSIVE IsSubseq(_, _)
IsSubseq(s, t) ==
    IF s = <<>> THEN TRUE
    ELSE IF t = <<>> THEN FALSE
    ELSE IF Head(s) = Head(t) THEN IsSubseq(Tail(s), Tail(t))
    ELSE IsSubseq(s, Tail(t))

\* The payloads of the send calls of p, in call order.
AcceptedSeq(p) == [k \in 1 .. Len(sendlog[p]) |-> Accepted(p, k)]

\* C3: in each direction, the payloads returned by the receiver's l4sap_recv
\* calls are, in order, a subsequence of the payloads of the sender's
\* l4sap_send calls.
C3_DeliveredInSendOrder ==
    \A p \in Peers : IsSubseq(delivered[Other(p)], AcceptedSeq(p))

\* C3 witness: both payloads of a sender were delivered, the second one after
\* a retransmission.
C3_Witness ==
    \E p \in Peers :
        /\ Len(sendlog[p]) = 2
        /\ delivered[Other(p)] = AcceptedSeq(p)
        /\ txcount[p] >= 2

(* ===================== recovery from a corrupted frame ================== *)
\* The frames the step put on the channel to q.
Handed(q) == SubSeq(chan'[q], Len(chan[q]) + 1, Len(chan'[q]))

\* The step is B's L4 layer getting -1 from L2 for a flipped DATA frame: it
\* delivers nothing, changes nothing and sends no ACK for that frame.
FlippedDataIsNotTaken ==
    \A p \in Peers :
        (/\ pc[p] \in {"send", "recv"} /\ chan[p] # <<>>
         /\ chan'[p] = Tail(chan[p])
         /\ Head(chan[p]).type = "BAD_DATA") =>
            /\ delivered' = delivered
            /\ l4state' = l4state
            /\ pc'[p] = pc[p]
            /\ \A i \in 1 .. Len(Handed(Other(p))) :
                   Handed(Other(p))[i] # AckFor(Head(chan[p]).seqno)

\* A's first l4sap_send was called while B waited in its first l4sap_recv.
Awaited == Len(sendlog["A"]) >= 1 /\ sendlog["A"][1].scene = "awaited"

\* C11: a DATA frame from A to B with a bit flipped in flight is rejected by
\* B's L2 layer and B neither delivers nor acknowledges it; A times out and
\* retransmits, and with a later copy and its ACK intact within the 5
\* transmissions B's l4sap_recv delivers the payload exactly once and A's
\* l4sap_send returns success.
C11_FlippedFrameIsRecovered ==
    /\ [][FlippedDataIsNotTaken]_vars
    /\ [](Awaited =>
            /\ sendlog["A"][1].res \in {"running", "ok"}
            /\ Returned("B", Accepted("A", 1)) <= 1
            /\ sendlog["A"][1].res = "ok" => Returned("B", Accepted("A", 1)) = 1)
    /\ Awaited ~> (/\ Awaited
                   /\ sendlog["A"][1].res = "ok"
                   /\ Returned("B", Accepted("A", 1)) = 1)

\* C11, the recovery alone: with B waiting in l4sap_recv when A calls
\* l4sap_send, flipped copies of the DATA frame only delay the delivery; the
\* payload is delivered once and the send returns success.
C11_RecoveryOfAwaitedSend ==
    /\ [](Awaited =>
            /\ sendlog["A"][1].res \in {"running", "ok"}
            /\ Returned("B", Accepted("A", 1)) <= 1
            /\ sendlog["A"][1].res = "ok" => Returned("B", Accepted("A", 1)) = 1)
    /\ Awaited ~> (/\ Awaited
                   /\ sendlog["A"][1].res = "ok"
                   /\ Returned("B", Accepted("A", 1)) = 1)

\* C11 witness: two copies of A's DATA frame were flipped, the third one was
\* delivered and acknowledged.
C11_Witness ==
    /\ Awaited
    /\ ninject = 2
    /\ txcount["A"] = 3
    /\ sendlog["A"][1].res = "ok"
    /\ delivered["B"] = <<Accepted("A", 1)>>

(* ===================== properties of one entity (open system) =========== *)
\* The step is entity p taking the datagram at the head of its channel, inside
\* l4sap_send or l4sap_recv.
Receives(p) ==
    /\ pc[p] \in {"send", "recv"}
    /\ chan[p] # <<>>
    /\ chan'[p] = Tail(chan[p])

\* The step is p receiving what ends the wait of l4sap_send: an L4_ACK with
\* ackno = 1 - send_seqno, or an L4_RESET.
ReceivesAnswer(p) ==
    /\ Receives(p)
    /\ \/ Head(chan[p]).type = "RESET"
       \/ Head(chan[p]).type = "ACK" /\ Head(chan[p]).ackno = 1 - send_seqno[p]

\* C4: an l4sap_send call never hands its DATA frame to L2 more than 5 times;
\* when it returns without having received a matching ACK or a RESET it has
\* handed it over exactly 5 times, returns L4_SEND_FAILED and leaves
\* send_seqno as it was; and every l4sap_send call returns.
C4_FiveTransmissionsThenFailed ==
    /\ [](\A p \in Peers : txcount[p] <= 5)
    /\ [][\A p \in Peers :
            (pc[p] = "send" /\ pc'[p] = "idle" /\ ~ReceivesAnswer(p)) =>
                /\ ret'[p] = Ret("send", "L4_SEND_FAILED", 0)
                /\ txcount'[p] = 5
                /\ send_seqno'[p] = send_seqno[p]]_vars
    /\ \A p \in Peers : (pc[p] = "send") ~> (pc[p] = "idle")

\* C4 witness: a send call that was never answered has returned
\* L4_SEND_FAILED.
C4_Witness ==
    /\ Len(sendlog["A"]) = 1
    /\ sendlog["A"][1].res = "L4_SEND_FAILED"
    /\ ninject = 0
    /\ txcount["A"] = 5

\* C5: entity p receiving a well-formed L4_RESET, in the wait of l4sap_send or
\* in the network loop of l4sap_recv, returns L4_QUIT in that step: nothing is
\* delivered, no frame is handed to L2, and send_seqno, expected_seqno and the
\* pending slot stay as they are.
C5_ResetReturnsQuit ==
    [][\A p \in Peers :
         (Receives(p) /\ Head(chan[p]).type = "RESET" /\ Head(chan[p]).mbz = 0) =>
             /\ pc'[p] = "idle"
             /\ ret'[p] = Ret(pc[p], "L4_QUIT", 0)
             /\ delivered' = delivered
             /\ emit' = <<>>
             /\ l4state' = l4state]_vars

\* C5 witness: a RESET ended an l4sap_send, and another one an l4sap_recv.
C5_Witness ==
    /\ Len(sendlog["A"]) = 1
    /\ sendlog["A"][1].res = "L4_QUIT"
    /\ ret["A"] = Ret("recv", "L4_QUIT", 0)

\* C6: the step in which l4sap_destroy tears the entity down hands L4_RESET
\* frames to L2.
C6_DestroyEmitsReset ==
    [][\A p \in Peers :
         (l2[p] /\ ~l2'[p]) => \E i \in 1 .. Len(emit') : emit'[i].type = "RESET"]_vars

\* C10: entity p receiving an L4 frame with mbz # 0, in l4sap_send or in
\* l4sap_recv, drops it: the frame is not taken for the matching ACK, is not
\* answered with an ACK, is not stashed, is not delivered and does not end the
\* operation with L4_QUIT.
C10_NonzeroMbzIsDropped ==
    [][\A p \in Peers :
         (Receives(p) /\ Head(chan[p]).mbz # 0) =>
             /\ l4state' = l4state
             /\ delivered' = delivered
             /\ \A i \in 1 .. Len(emit') : emit'[i].type # "ACK"
             /\ ~(pc'[p] = "idle" /\ ret'[p].code \in {"ok", "L4_QUIT"})]_vars

(* ==================== properties on the perfect channel ================= *)
\* The first l4sap_send of an entity was called while the peer was inside its
\* own first l4sap_send, before any l4sap_recv, in one of the scenes S.
Crossing(S) == \E p \in Peers : Len(sendlog[p]) >= 1 /\ sendlog[p][1].scene \in S

\* When the first sends of the two entities meet in a scene of S, neither
\* fails; each returns the length of its payload and leaves the peer's payload
\* in the pending slot, from where the entity's following l4sap_recv returns
\* it at once (without entering the network loop), with expected_seqno
\* toggled and the slot emptied.
BothSendsSucceed(S) ==
    Crossing(S) =>
            \A x \in Peers :
                /\ sendlog[x][1].res \in {"running", "ok"}
                /\ sendlog[x][1].res = "ok" =>
                       sendlog[x][1].n = Len(Accepted(x, 1))
                /\ (sendlog[x][1].res = "ok" /\ nrecv[x] = 0) =>
                       HeldForNextRecv(x, Accepted(Other(x), 1))
                /\ (nrecv[x] = 1 /\ Len(sendlog[x]) = 1) =>
                       /\ pc[x] = "idle"
                       /\ ret[x] = Ret("recv", "ok", Len(Accepted(Other(x), 1)))
                       /\ delivered[x] = <<Accepted(Other(x), 1)>>
                       /\ expected_seqno[x] = 1
                       /\ pending_data[x] = 0

\* The step in which that l4sap_recv is called hands an ACK to L2.
PendingRecvAcks(S) ==
    \A x \in Peers :
        (Crossing(S) /\ Len(sendlog[x]) = 1 /\ nrecv[x] = 0 /\ nrecv'[x] = 1) =>
            chan'[Other(x)] = Append(chan[Other(x)], AckFor(0))

\* C7: on the perfect channel, when A and B both call l4sap_send before either
\* calls l4sap_recv (the second call is made while the first is in progress),
\* each ACKs and stashes the peer's DATA, both calls return the length of
\* their payload, and the following l4sap_recv on each side returns the peer's
\* payload from the pending slot, emitting an ACK and toggling expected_seqno.
C7_CrossingSends ==
    /\ []BothSendsSucceed({"crossing", "overlapping"})
    /\ [][PendingRecvAcks({"crossing", "overlapping"})]_vars

\* C7, restricted: the same when the second l4sap_send is called during the
\* first attempt (the first second) of the first one.
C7_CrossingInFirstAttempt ==
    /\ []BothSendsSucceed({"crossing"})
    /\ [][PendingRecvAcks({"crossing"})]_vars

\* C7 witness: the sends crossed in the first attempt and each entity's
\* l4sap_recv has returned the peer's payload.
C7_Witness ==
    /\ Crossing({"crossing"})
    /\ \A x \in Peers :
        /\ nrecv[x] = 1 /\ Len(sendlog[x]) = 1
        /\ delivered[x] = <<Accepted(Other(x), 1)>>

\* C8: l4sap_send returns min(n, L4Payloadsize) on success; and when the first
\* l4sap_send of p (n bytes) is called on the perfect channel while the peer
\* waits in l4sap_recv with a buffer of L4Payloadsize bytes, it does not fail,
\* and once it succeeded that l4sap_recv has returned min(n, L4Payloadsize)
\* with exactly the first min(n, L4Payloadsize) bytes sent.
C8_TruncatedPayloadArrives ==
    \A p \in Peers : \A k \in 1 .. Len(sendlog[p]) :
        LET me == sendlog[p][k]
            m == IF Len(me.data) < L4Payloadsize THEN Len(me.data) ELSE L4Payloadsize
            q == Other(p)
        IN /\ me.res = "ok" => me.n = m
           /\ (k = 1 /\ me.scene = "awaited") =>
                  /\ me.res \in {"running", "ok"}
                  /\ me.res = "ok" =>
                         /\ Len(delivered[q]) >= 1
                         /\ delivered[q][1] = SubSeq(me.data, 1, m)
                         /\ (nrecv[q] = 1 /\ Len(sendlog[q]) = 0) =>
                                ret[q] = Ret("recv", "ok", m)

\* C8 witness: a send of L4Payloadsize + 1 bytes to a waiting peer succeeded,
\* and the peer got the first L4Payloadsize bytes.
C8_Witness ==
    \E p \in Peers :
        /\ Len(sendlog[p]) = 1
        /\ sendlog[p][1].scene = "awaited"
        /\ Len(sendlog[p][1].data) = L4Payloadsize + 1
        /\ sendlog[p][1].res = "ok"
        /\ sendlog[p][1].n = L4Payloadsize
        /\ ret[Other(p)] = Ret("recv", "ok", L4Payloadsize)
        /\ delivered[Other(p)] = <<SubSeq(sendlog[p][1].data, 1, L4Payloadsize)>>

(* ===================== properties of the transmissions ================= *)
\* Every one of the first n bytes of buf exists and has been written.
Written(buf, n) == n <= Len(buf) /\ \A i \in 1 .. n : buf[i] # Indeterminate

SendTakes == pc["A"] = "send" /\ chan["A"] # <<>> /\ chan'["A"] = Tail(chan["A"])

\* An L4_ACK whose ackno is not the awaited one, or an L4_DATA frame.
Unawaited(f) ==
    \/ f.type = "DATA"
    \/ f.type = "ACK" /\ f.ackno # 1 - send_seqno["A"]

\* C14: in l4sap_send the DATA frame is retransmitted only after a timeout or
\* an L2 receive error; an L4_ACK with a mismatched ackno or an L4_DATA frame
\* triggers no retransmission and consumes none of the 5 transmissions: the
\* sender keeps waiting in the same attempt.
C14_UnawaitedFrameKeepsTheAttempt ==
    [][(SendTakes /\ Unawaited(Head(chan["A"]))) =>
           /\ txcount'["A"] = txcount["A"]
           /\ attempt'["A"] = attempt["A"]
           /\ pc'["A"] = "send"
           /\ \A i \in 1 .. Len(emit') : emit'[i].type # "DATA"]_vars

(* ===================== properties of the sequence numbers ============== *)
\* The l4sap_send calls of p that returned success.
Succeeded(p) == Cardinality({k \in 1 .. Len(sendlog[p]) : sendlog[p][k].res = "ok"})

\* The sequence numbers of A count the successful sends and the payloads
\* returned, modulo 2.
SeqnosCount ==
    /\ send_seqno["A"] \in {0, 1}
    /\ expected_seqno["A"] \in {0, 1}
    /\ send_seqno["A"] = Succeeded("A") % 2
    /\ expected_seqno["A"] = Len(delivered["A"]) % 2

\* A step of l4sap_send keeps expected_seqno, and keeps send_seqno when the
\* call returns L4_SEND_FAILED or L4_QUIT with it; a step of l4sap_recv keeps
\* send_seqno.
SeqnosOfTheOtherDirectionKept ==
    /\ (pc["A"] = "send" \/ pc'["A"] = "send" \/ sendlog'["A"] # sendlog["A"]) =>
           expected_seqno'["A"] = expected_seqno["A"]
    /\ (/\ sendlog'["A"] # sendlog["A"]
        /\ sendlog'["A"][Len(sendlog'["A"])].res \in {"L4_SEND_FAILED", "L4_QUIT"}) =>
           send_seqno'["A"] = send_seqno["A"]
    /\ (pc["A"] = "recv" \/ pc'["A"] = "recv" \/ nrecv'["A"] # nrecv["A"]) =>
           send_seqno'["A"] = send_seqno["A"]

\* C17: after any sequence of operations on one entity, send_seqno and
\* expected_seqno are 0 or 1, send_seqno is the number of l4sap_send calls
\* that returned success modulo 2 and expected_seqno the number of l4sap_recv
\* calls that returned a payload modulo 2; failed and reset sends toggle
\* nothing, l4sap_send never changes expected_seqno and l4sap_recv never
\* changes send_seqno.
C17_SeqnosCountModuloTwo ==
    /\ []SeqnosCount
    /\ [][SeqnosOfTheOtherDirectionKept]_vars

\* C17 witness: A has made a send that succeeded, a send that failed and a
\* receive that returned a payload.
C17_Witness ==
    /\ pc["A"] = "idle"
    /\ Len(sendlog["A"]) = 2
    /\ sendlog["A"][1].res = "ok"
    /\ sendlog["A"][2].res = "L4_SEND_FAILED"
    /\ Len(delivered["A"]) = 1
    /\ send_seqno["A"] = 1 /\ expected_seqno["A"] = 1

(* ================= properties of the pending slot in l4sap_send ======== *)
\* The step is one of l4sap_send on p that takes a DATA frame from the head
\* of p's socket queue.
SendTakesData(p) ==
    /\ pc[p] = "send" /\ chan[p] # <<>>
    /\ Head(chan[p]).type = "DATA"
    /\ Len(chan'[p]) = Len(chan[p]) - 1

\* Frame f is in p's pending slot.
Stashed(p, f) ==
    /\ pending_data[p] = 1
    /\ pending_header[p].seqno = f.seqno
    /\ pending_pl_buffer[p] = f.pl

\* C16: during l4sap_send the pending slot is empty whenever a DATA frame
\* arrives that is neither the stashed one nor one already delivered, so
\* l4sap_send acknowledges no DATA frame that it then discards, duplicates
\* excepted.
C16_NewDataFindsTheSlotEmpty ==
    [][\A p \in Peers :
           (/\ SendTakesData(p)
            /\ ~Stashed(p, Head(chan[p]))
            /\ Returned(p, Head(chan[p]).pl) = 0) => pending_data[p] = 0]_vars

(* ================= properties of the loop of l4sap_recv ================ *)
\* The step is one of l4sap_recv on A that takes the datagram at the head of
\* A's socket queue.
RecvTakes == pc["A"] = "recv" /\ chan["A"] # <<>> /\ chan'["A"] = Tail(chan["A"])

\* C15: in the loop of l4sap_recv a datagram for which the L2 receive returns
\* an error (a negative value) or a payload shorter than the L4 header is
\* ignored: nothing is copied to the caller, no ACK is emitted, expected_seqno
\* is unchanged and the call does not return.
C15_UnusableFrameIsIgnored ==
    [][(RecvTakes /\ L2RecvLen(Head(chan["A"])) < L4Headersize) =>
           /\ delivered' = delivered
           /\ emit' = <<>>
           /\ expected_seqno' = expected_seqno
           /\ pc'["A"] = "recv"
           /\ ret' = ret]_vars

\* The step is one in which l4sap_recv on A returns a payload.
RecvReturnsPayload == delivered'["A"] # delivered["A"]

\* The frame such a step works on: the datagram taken from the socket, or the
\* stashed frame when the call is just being made.
Source ==
    IF pc["A"] = "recv" /\ chan["A"] # <<>> THEN Head(chan["A"])
    ELSE [pending_header["A"] EXCEPT !.pl = pending_pl_buffer["A"]]

\* C18: whenever l4sap_recv returns a payload length, on the pending path as
\* on the network path, the bytes given to the caller are the payload of an
\* L4_DATA frame whose seqno was expected_seqno at the entry of the call, and
\* the call has handed an L4_ACK with ackno = 1 - seqno to L2 before
\* returning.
C18_ReturnedPayloadWasExpectedAndAcked ==
    [][/\ (pc["A"] = "recv" /\ pc'["A"] = "recv") =>
              expected_seqno'["A"] = expected_seqno["A"]
       /\ RecvReturnsPayload =>
              LET got == delivered'["A"][Len(delivered'["A"])] IN
              /\ Source.type = "DATA"
              /\ Source.seqno = expected_seqno["A"]
              /\ Len(got) <= Len(Source.pl)
              /\ got = SubSeq(Source.pl, 1, Len(got))
              /\ ret'["A"] = Ret("recv", "ok", Len(got))
              /\ pc'["A"] = "idle"
              /\ \E i \in 1 .. Len(emit') :
                     emit'[i].type = "ACK" /\ emit'[i].ackno = 1 - Source.seqno]_vars

\* C18 witness: l4sap_recv returned a payload on the pending path: the DATA
\* frame had been stashed by the l4sap_send before.
C18_Witness ==
    /\ Len(sendlog["A"]) = 1 /\ nrecv["A"] = 1
    /\ pending_data["A"] = 0
    /\ pending_header["A"].type = "DATA"
    /\ ret["A"] = Ret("recv", "ok", 1)
    /\ delivered["A"] = <<pending_pl_buffer["A"]>>
    /\ emit = <<AckFor(pending_header["A"].seqno)>>

\* C19: in the loop of l4sap_recv an L4_DATA frame (mbz = 0) whose seqno is
\* not expected_seqno is answered with an L4_ACK with ackno = 1 - seqno, which
\* is expected_seqno; it is not copied to the caller, does not toggle
\* expected_seqno and does not end the call.  So the retransmission of a DATA
\* frame that has been delivered is acknowledged again and not delivered
\* again.
C19_DuplicateIsAckedAgainNotDelivered ==
    [][(/\ RecvTakes
        /\ Head(chan["A"]).type = "DATA" /\ Head(chan["A"]).mbz = 0
        /\ Head(chan["A"]).seqno # expected_seqno["A"]) =>
           /\ Len(emit') = 1
           /\ emit'[1].type = "ACK"
           /\ emit'[1].ackno = 1 - Head(chan["A"]).seqno
           /\ emit'[1].ackno = expected_seqno["A"]
           /\ delivered' = delivered
           /\ expected_seqno' = expected_seqno
           /\ ret' = ret
           /\ pc'["A"] = "recv"]_vars

\* C19 witness: the peer sent the same DATA frame twice (the first ACK was
\* lost); the first l4sap_recv returned its payload, the second one has
\* acknowledged the copy and waits.
C19_Witness ==
    /\ nrecv["A"] = 2 /\ Len(sendlog["A"]) = 0
    /\ pc["A"] = "recv"
    /\ delivered["A"] = <<packet["A"].pl>>
    /\ packet["A"].type = "DATA" /\ packet["A"].mbz = 0
    /\ packet["A"].seqno = 0 /\ expected_seqno["A"] = 1
    /\ emit = <<AckFor(0)>>
    /\ ninject = 2

(* ======================= properties of the pending slot ================ *)
\* The slot of A holds at most one frame, and none while l4sap_recv waits.
SlotHoldsAtMostOne ==
    /\ pending_data["A"] \in {0, 1}
    /\ pc["A"] = "recv" => pending_data["A"] = 0

\* The slot of A, as far as it is in use.
Slot == <<pending_data["A"], pending_header["A"], pending_pl_buffer["A"]>>

\* How a step may change the slot of A.
SlotDiscipline ==
    /\ (pending_data["A"] = 0 /\ pending_data'["A"] = 1) =>
           /\ SendTakes
           /\ Head(chan["A"]).type = "DATA"
           /\ pending_header'["A"] = [Head(chan["A"]) EXCEPT !.pl = <<>>]
           /\ pending_pl_buffer'["A"] = Head(chan["A"]).pl
    /\ (pending_data["A"] = 1 /\ pending_data'["A"] = 1) => Slot' = Slot
    /\ (pending_data["A"] = 1 /\ pending_data'["A"] = 0) => nrecv'["A"] = nrecv["A"] + 1
    /\ nrecv'["A"] # nrecv["A"] => pending_data'["A"] = 0
    /\ (nrecv'["A"] # nrecv["A"] /\ pending_data["A"] = 1) =>
           /\ Len(emit') = 1
           /\ emit'[1].type = "ACK"
           /\ emit'[1].ackno = 1 - pending_header["A"].seqno
           /\ IF pending_header["A"].type = "DATA"
                 /\ pending_header["A"].seqno = expected_seqno["A"]
              THEN /\ delivered'["A"] = Append(delivered["A"], pending_pl_buffer["A"])
                   /\ pc'["A"] = "idle"
              ELSE /\ delivered' = delivered
                   /\ pc'["A"] = "recv"

\* C20: the pending slot holds at most one frame; it goes from empty to full
\* only in l4sap_send, on an L4_DATA frame received while it is empty, and a
\* full slot is never overwritten; it goes from full to empty only in
\* l4sap_recv; and every l4sap_recv call that passes the argument validation
\* leaves it empty, delivering the stashed frame (type DATA, seqno =
\* expected_seqno) or discarding it after an ACK with ackno = 1 -
\* pending.seqno.
C20_PendingSlotDiscipline ==
    /\ []SlotHoldsAtMostOne
    /\ [][SlotDiscipline]_vars

\* C20 witness: two DATA frames arrived during an l4sap_send, the slot kept
\* the first one (seqno 1), and the l4sap_recv made next has discarded it
\* after its ACK and waits.
C20_Witness ==
    /\ Len(sendlog["A"]) = 1 /\ nrecv["A"] = 1
    /\ ninject = 2 /\ chan["A"] = <<>>
    /\ txcount["A"] >= 3
    /\ pc["A"] = "recv" /\ packet["A"] = NoFrame
    /\ pending_data["A"] = 0
    /\ pending_header["A"].type = "DATA" /\ pending_header["A"].seqno = 1
    /\ expected_seqno["A"] = 0
    /\ emit = <<AckFor(1)>>

\* C21: l4sap_recv never writes more than len bytes into the caller's buffer
\* and never returns more than len, whatever DATA frame (payload of 0 to
\* L4Payloadsize bytes) it received and whatever len >= 1 it was called with,
\* on the network path as on the pending path.
C21_RecvStaysWithinLen ==
    [][RecvReturnsPayload =>
           /\ Len(delivered'["A"][Len(delivered'["A"])]) <= rlen'["A"]
           /\ ret'["A"].n <= rlen'["A"]]_vars

\* The same for the pending path alone: the step is the call itself.
C21_PendingPathStaysWithinLen ==
    [][(RecvReturnsPayload /\ pc["A"] = "idle") =>
           /\ Len(delivered'["A"][Len(delivered'["A"])]) <= rlen'["A"]
           /\ ret'["A"].n <= rlen'["A"]]_vars

\* A payload longer than the caller's buffer was returned on the pending path,
\* cut to len bytes.
C21_PendingWitness ==
    /\ Len(sendlog["A"]) = 1 /\ nrecv["A"] = 1
    /\ pc["A"] = "idle" /\ rlen["A"] = 1
    /\ Len(pending_pl_buffer["A"]) = L4Payloadsize
    /\ ret["A"] = Ret("recv", "ok", 1)
    /\ delivered["A"] = <<Take(pending_pl_buffer["A"], 1)>>

(* ================== properties of the perfect channel ================== *)
\* C22: when the channel loses, corrupts, duplicates and reorders nothing and
\* the peer answers every DATA frame it receives, no l4sap_send returns
\* L4_SEND_FAILED, whatever the interleaving of the l4sap_send and l4sap_recv
\* calls on the two entities: stale ACKs and duplicate DATA frames left over
\* from earlier operations do not exhaust the 5 attempts.
C22_NoSendFailsOnThePerfectChannel ==
    \A p \in Peers : \A k \in 1 .. Len(sendlog[p]) :
        sendlog[p][k].res # "L4_SEND_FAILED"

(* ==================== properties of the argument checks ================ *)
\* A call made with a null handle, a null buffer or len <= 0.
Invalid(c) == c.l4 = "null" \/ c.data = "null" \/ c.len <= 0

\* Every call with such arguments can be made on A, and is rejected.
InvalidIsRejected ==
    (pc["A"] = "idle" /\ nrejected < MaxRejected) =>
        \A l4 \in Pointers : \A data \in Pointers : \A len \in CallLens :
            Invalid(Call("any", l4, data, len)) =>
                /\ ENABLED L4SendRejected("A", l4, data, len)
                /\ ENABLED L4RecvRejected("A", l4, data, len)

\* The step is a rejected call: it returns the error code, hands nothing to
\* L2, takes nothing from the socket and changes nothing of the entity.
RejectedCallChangesNothing ==
    nrejected' # nrejected =>
        /\ Invalid(rejected')
        /\ ret'["A"] = Ret(rejected'.op,
                           IF rejected'.op = "send" THEN "L4_SEND_FAILED" ELSE "-1", 0)
        /\ emit' = <<>>
        /\ UNCHANGED <<chan, l4state, txcount, sendlog, delivered, nrecv, pc, l2>>

\* C13: l4sap_send called with a null handle, null data or len <= 0 returns
\* L4_SEND_FAILED and l4sap_recv called with a null handle, a null buffer or
\* len <= 0 returns -1; no frame is transmitted, nothing is read from the
\* network, and send_seqno, expected_seqno and the pending slot stay as they
\* are.
C13_InvalidArgumentsChangeNothing ==
    /\ []InvalidIsRejected
    /\ [][RejectedCallChangesNothing]_vars

\* C13 witness: l4sap_recv was called with invalid arguments while the pending
\* slot was full, and the slot is still full.
C13_Witness ==
    /\ pc["A"] = "idle"
    /\ nrejected = 1 /\ rejected.op = "recv"
    /\ ret["A"] = Ret("recv", "-1", 0)
    /\ pending_data["A"] = 1

TypeOK ==
    /\ \A p \in Peers : send_seqno[p] \in {0, 1} /\ expected_seqno[p] \in {0, 1}
    /\ \A p \in Peers : pending_data[p] \in {0, 1}
    /\ \A p \in Peers : attempt[p] \in 0 .. max_retries

(* ========================= properties of mazeSolve ===================== *)
\* The index of the start and of the end cell.
StartCell(m) == m.startY * m.edgeLen + m.startX

EndCell(m) == m.endY * m.edgeLen + m.endX

\* Cells i and j are neighbours and both declare the passage between them
\* open: right/left, left/right, down/up or up/down.
Passage(m, i, j) ==
    \E k \in 1 .. 4 :
        LET d == Directions[k]
            x == i % m.edgeLen
            y == i \div m.edgeLen
        IN  /\ is_valid(x + d.dx, y + d.dy, m.edgeLen)
            /\ j = (y + d.dy) * m.edgeLen + (x + d.dx)
            /\ d.bit \in m.maze[i]
            /\ d.back \in m.maze[j]

\* The cells reachable from the cells S through such passages.
RECURSIVE ReachableFrom(_, _)
ReachableFrom(m, S) ==
    LET T == S \cup {j \in DOMAIN m.maze : \E i \in S : Passage(m, i, j)}
    IN  IF T = S THEN S ELSE ReachableFrom(m, T)

EndReachable(m) == EndCell(m) \in ReachableFrom(m, {StartCell(m)})

\* P is the set of the cells of a path from cell s to cell e that visits no
\* cell twice.
RECURSIVE SimplePath(_, _, _, _)
SimplePath(m, s, e, P) ==
    /\ s \in P
    /\ IF P = {s}
       THEN s = e
       ELSE \E t \in P \ {s} : Passage(m, s, t) /\ SimplePath(m, t, e, P \ {s})

MarkedCells(m) == {i \in DOMAIN m.maze : mark \in m.maze[i]}

\* What a finished call of mazeSolve has left.
MazeSolved ==
    /\ IF EndReachable(given)
       THEN SimplePath(given, StartCell(given), EndCell(given), MarkedCells(maze))
       ELSE MarkedCells(maze) = {}
    /\ \A i \in DOMAIN given.maze : maze.maze[i] \ {mark} = given.maze[i] \ {mark}
    /\ [maze EXCEPT !.maze = given.maze] = given
    /\ calls <= given.edgeLen * given.edgeLen

\* C23: mazeSolve returns on every maze with start and end inside the grid
\* (dfs is entered at most once per cell); if the end is reachable from the
\* start through passages both neighbours declare open, the marked cells are
\* then exactly the cells of one simple path from start to end; if it is not,
\* no cell is marked; no other flag of any cell is changed.
C23_MazeSolveMarksOnePath ==
    /\ mazepc = "called" => mazeSolve(maze).calls \in 1 .. maze.edgeLen * maze.edgeLen
    /\ mazepc = "returned" => MazeSolved

\* A reachable end found after a dead end (the right neighbour is entered
\* first and leads nowhere), and the path of three cells marked.
C23_Witness ==
    /\ mazepc = "returned"
    /\ given.edgeLen = 2
    /\ StartCell(given) = 0 /\ EndCell(given) = 3
    /\ given.maze = [i \in 0 .. 3 |-> CASE i = 0 -> {right, down}
                                        [] i = 1 -> {left}
                                        [] i = 2 -> {up, right}
                                        [] i = 3 -> {left}]
    /\ MarkedCells(maze) = {0, 2, 3}
    /\ calls = 4

\* An end that is not reachable, the passage towards it being declared by one
\* cell only: nothing is marked.
C23_WitnessUnreachable ==
    /\ mazepc = "returned"
    /\ given.edgeLen = 2
    /\ StartCell(given) = 0 /\ EndCell(given) = 1
    /\ given.maze = [i \in 0 .. 3 |-> IF i = 0 THEN {right} ELSE {}]
    /\ maze = given

=============================================================================
